---- MODULE Spec2Model ----
(***************************************************************************)
(* A model of the data-access facade of the plant journal                  *)
(* (src/lib/db/mongo/index.js, class MongoDb).                             *)
(*                                                                         *)
(* The facade composes four generic helpers (read, createOne, update,      *)
(* remove) which live in ./read, ./create, ./update and ./delete.  Those   *)
(* files are not part of the sources at hand, so the helpers are modelled  *)
(* from section 4.3 of the specification; everything else follows the      *)
(* facade's code line by line.                                             *)
(*                                                                         *)
(* A storage call is asynchronous: the facade issues it, and its effect    *)
(* on the store and its reply happen together in a later step (the         *)
(* "...Done" actions).  What the code does synchronously after a reply     *)
(* (the next stage of the waterfall issuing its own call) is part of the   *)
(* same step.                                                              *)
(*                                                                         *)
(* Identifiers are compared by value: the store finds a document by the   *)
(* identifier a query names, in whichever form it is written.  The form    *)
(* (string or native) is kept only on the records handed back to callers.  *)
(*                                                                         *)
(* SpecDelete follows one deletePlant alone, SpecRace two of them beside a *)
(* createNote or updateNote, SpecConn the connection under the calls of    *)
(* every operation up to its first storage call, SpecUser two successive   *)
(* findOrCreateFacebookUser, SpecGet one getPlantById.                     *)
(***************************************************************************)
EXTENDS Integers, Sequences, FiniteSets, TLC

\* ------------------------------------------------------------------ bounds

\* longest plantIds array of a Note in an initial store
MaxPlantIds == 2

\* ------------------------------------------------------------- value sets

Users    == {"u1", "u2"}
UserIds  == {"x1", "x2", "x3"}
FbIds    == {"f1", "f2"}
PlantIds == {"p1", "p2"}
NoteIds  == {"n1", "n2"}
\* the order in which the store returns Notes (its natural order)
NoteOrder == <<"n1", "n2">>
\* the two concurrent invocations of deletePlant
Procs == {"d1", "d2"}

\* JavaScript's null / undefined, and "no document under this identifier"
Null   == "null"
Absent == [absent |-> TRUE]
\* a callback argument that was not passed, and one that was
Undefined == <<>>
Value(v)  == <<v>>

Range(s) == {s[i] : i \in DOMAIN s}

SeqsUpTo(S, n) == UNION {[1..k -> S] : k \in 0..n}

\* the documents a Note / Plant identifier can hold in the store
NoteDocs  == [userId : Users, plantIds : SeqsUpTo(PlantIds, MaxPlantIds)]
PlantDocs == [userId : Users]
UserDocs  == [fb : FbIds]

VARIABLES
  note,        \* the note collection:  NoteIds  -> NoteDocs  \cup {Absent}
  plant,       \* the plant collection: PlantIds -> PlantDocs \cup {Absent}
  storeFails,  \* whether a storage call may report an error in this run
  note0,       \* the note collection when the run began
  plant0,      \* the plant collection when the run began
  pc,          \* deletePlant: the stage whose storage call is in flight
  arg,         \* deletePlant: its arguments [_id, userId]
  splitNotes,  \* deletePlant: what getNotes handed on
  cbErr,       \* deletePlant: the error handed to the caller's callback
  cbResult,    \* deletePlant: the result handed to the caller's callback
  calls,       \* deletePlant: storage calls issued so far
  firstErr,    \* deletePlant: the first error a storage call reported
  callsAtErr,  \* deletePlant: storage calls issued when that error was reported
  wpc,         \* the concurrent createNote / updateNote: "idle", "done" or "off"
  wr,          \* what that call wrote, and the stage each deletePlant was in
  db,          \* this.db: Undefined, or Value(k) for the k-th connection made
  connects,    \* how many times MongoClient.connect has been called
  cpc,         \* a facade call: "idle", "connecting", "issued", "done" or "off"
  cop,         \* a facade call: the operation and whether its input is valid
  cconn,       \* a facade call: the connects it has issued
  cerr,        \* a facade call: the error GetDb handed to its callback
  cdb,         \* a facade call: the connection GetDb handed to its callback
  cissued,     \* a facade call: the storage call it issued
  ccb,         \* a facade call: the error handed to the caller's callback
  readNoMatch, \* how read reports that nothing matched: "empty" ([]) or "none" (null)
  user,        \* the user collection: UserIds -> UserDocs \cup {Absent}
  user0,       \* the user collection when the run began
  fpc,         \* findOrCreateFacebookUser: "idle", "read" or "create"
  farg,        \* findOrCreateFacebookUser: the facebook.id of the call under way
  fres,        \* findOrCreateFacebookUser: what each finished call handed back
  gpc,         \* getPlantById: "idle", "readPlant", "readNotes", "done", "raised"
  garg,        \* getPlantById: its plantId
  gplant,      \* getPlantById: the variable plant of the read's callback
  gres,        \* getPlantById: what was handed to the caller's callback
  gnoteReads   \* getPlantById: reads of the note collection issued

envVars   == <<storeFails, readNoMatch, note0, plant0>>
raceVars  == <<wpc, wr>>
connVars  == <<db, connects, cpc, cop, cconn, cerr, cdb, cissued, ccb>>
userVars  == <<user, user0, fpc, farg, fres>>
getVars   == <<gpc, garg, gplant, gres, gnoteReads>>
dpVars    == <<pc, arg, splitNotes, cbErr, cbResult, calls, firstErr, callsAtErr>>
restVars  == <<envVars, raceVars, connVars, userVars, getVars>>
vars      == <<note, plant, storeFails, note0, plant0, pc, arg, splitNotes,
               cbErr, cbResult, calls, firstErr, callsAtErr, wpc, wr,
               db, connects, cpc, cop, cconn, cerr, cdb, cissued, ccb,
               readNoMatch, user, user0, fpc, farg, fres,
               gpc, garg, gplant, gres, gnoteReads>>

\* ------------------------------------------------- the shared connection

\* the facade's callers: the constructor's own GetDb and two operations
Callers == {"constructor", "c1", "c2"}

\* the operations of the facade, each with the storage call its GetDb
\* callback issues first
OpKinds == {"findOrCreateFacebookUser", "createPlant", "getPlantById",
            "getPlantsByUserId", "updatePlant", "deletePlant",
            "deleteAllPlantsByUserId", "createNote", "getNoteById",
            "updateNote", "deleteNote"}

FirstCall(kind) ==
  CASE kind = "findOrCreateFacebookUser" -> [call |-> "read", coll |-> "user"]
    [] kind = "createPlant"              -> [call |-> "createOne", coll |-> "plant"]
    [] kind = "getPlantById"             -> [call |-> "read", coll |-> "plant"]
    [] kind = "getPlantsByUserId"        -> [call |-> "read", coll |-> "user"]
    [] kind = "updatePlant"              -> [call |-> "update", coll |-> "plant"]
    [] kind = "deletePlant"              -> [call |-> "read", coll |-> "note"]
    [] kind = "deleteAllPlantsByUserId"  -> [call |-> "remove", coll |-> "plant"]
    [] kind = "createNote"               -> [call |-> "createOne", coll |-> "note"]
    [] kind = "getNoteById"              -> [call |-> "read", coll |-> "note"]
    [] kind = "updateNote"               -> [call |-> "update", coll |-> "note"]
    [] kind = "deleteNote"               -> [call |-> "remove", coll |-> "note"]

\* the check an operation makes on its input before its first storage call:
\* the error it hands to its callback, or Null
InputError(kind, valid) ==
  CASE kind = "findOrCreateFacebookUser" /\ ~valid -> "No facebook.id"
    [] kind = "createPlant" /\ ~valid -> "userId must be specified (plant)"
    [] kind = "createNote" /\ ~valid  -> "userId must be specified (note)"
    [] OTHER -> Null

\* the callback an operation passes to GetDb, run with (err, dbv): err is not
\* looked at; the input is checked and the first storage call is issued
\* with dbv, whatever it is.  The constructor's callback does nothing.
OpBody(c, kind, valid, err, dbv) ==
  LET bad == InputError(kind, valid)
  IN  /\ cerr' = [cerr EXCEPT ![c] = err]
      /\ cdb' = [cdb EXCEPT ![c] = dbv]
      /\ IF c = "constructor"
         THEN /\ cpc' = [cpc EXCEPT ![c] = "done"]
              /\ UNCHANGED <<cissued, ccb>>
         ELSE IF bad # Null
         THEN /\ cpc' = [cpc EXCEPT ![c] = "done"]
              /\ ccb' = [ccb EXCEPT ![c] = Value(bad)]
              /\ UNCHANGED cissued
         ELSE /\ cpc' = [cpc EXCEPT ![c] = "issued"]
              /\ cissued' = [cissued EXCEPT
                               ![c] = Value([call |-> FirstCall(kind).call,
                                             coll |-> FirstCall(kind).coll,
                                             db |-> dbv])]
              /\ UNCHANGED ccb

\* the test of GetDb, `if(this.db)`
ReuseDb(d) == d # Undefined

\* an operation of the facade is called.  GetDb calls back at once with
\* this.db when it is set, and calls MongoClient.connect otherwise.
FacadeCall(c, kind, valid) ==
  /\ c # "constructor"
  /\ cpc[c] = "idle"
  /\ cop' = [cop EXCEPT ![c] = [kind |-> kind, valid |-> valid]]
  /\ IF ReuseDb(db)
     THEN /\ OpBody(c, kind, valid, Null, db)
          /\ UNCHANGED <<db, connects, cconn>>
     ELSE /\ connects' = connects + 1
          /\ cconn' = [cconn EXCEPT ![c] = Append(@, connects + 1)]
          /\ cpc' = [cpc EXCEPT ![c] = "connecting"]
          /\ UNCHANGED <<db, cerr, cdb, cissued, ccb>>
  /\ UNCHANGED <<note, plant, envVars, raceVars, userVars, getVars, dpVars>>

\* MongoClient.connect calls back: on an error cb(err); otherwise the new
\* connection is stored in this.db and handed on
ConnectDone(c, ok) ==
  /\ cpc[c] = "connecting"
  /\ LET k == cconn[c][Len(cconn[c])]
     IN  IF ok
         THEN /\ db' = Value(k)
              /\ OpBody(c, cop[c].kind, cop[c].valid, Null, Value(k))
         ELSE /\ db' = db
              /\ OpBody(c, cop[c].kind, cop[c].valid, "connectError", Undefined)
  /\ UNCHANGED <<connects, cop, cconn>>
  /\ UNCHANGED <<note, plant, envVars, raceVars, userVars, getVars, dpVars>>

\* the facade after its connection was made and before any operation
Connected ==
  /\ db = Value(1)
  /\ connects = 1
  /\ cpc = [c \in Callers |-> IF c = "constructor" THEN "done" ELSE "off"]
  /\ cop = [c \in Callers |-> [kind |-> "GetDb", valid |-> TRUE]]
  /\ cconn = [c \in Callers |-> IF c = "constructor" THEN <<1>> ELSE <<>>]
  /\ cerr = [c \in Callers |-> Null]
  /\ cdb = [c \in Callers |-> IF c = "constructor" THEN Value(1) ELSE Undefined]
  /\ cissued = [c \in Callers |-> Undefined]
  /\ ccb = [c \in Callers |-> Undefined]

\* the facade right after `new MongoDb()`: the constructor has called GetDb,
\* whose connect is under way
InitConn ==
  /\ db = Undefined
  /\ connects = 1
  /\ cpc = [c \in Callers |-> IF c = "constructor" THEN "connecting" ELSE "idle"]
  /\ cop = [c \in Callers |-> [kind |-> "GetDb", valid |-> TRUE]]
  /\ cconn = [c \in Callers |-> IF c = "constructor" THEN <<1>> ELSE <<>>]
  /\ cerr = [c \in Callers |-> Null]
  /\ cdb = [c \in Callers |-> Undefined]
  /\ cissued = [c \in Callers |-> Undefined]
  /\ ccb = [c \in Callers |-> Undefined]

\* --------------------------------------------------- the generic helpers

\* the query of getNotes, {plantIds: _id, userId}: the Note is userId's and its
\* plantIds array contains _id
NotesQueryAnyUser(doc, _id, userId) == _id \in Range(doc.plantIds)

NotesQuery(doc, _id, userId) ==
  /\ doc.userId = userId
  /\ _id \in Range(doc.plantIds)

\* the query of the last stage, {_id, userId}: this Plant, when it is userId's
PlantQueryOtherUser(p, doc, _id, userId) ==
  /\ p = _id
  /\ doc.userId # userId

PlantQuery(p, doc, _id, userId) ==
  /\ p = _id
  /\ doc.userId = userId

\* what read hands to its callback for the documents found: the sequence, or
\* null when there is none and the helper reports that as no result
Reply(docs) ==
  IF docs = <<>> /\ readNoMatch = "none"
  THEN [null |-> TRUE, docs |-> <<>>]
  ELSE [null |-> FALSE, docs |-> docs]

\* JavaScript's truth of a read's result (an empty array is true), x || [], and
\* x[0]
JsUndefined == [undefined |-> TRUE]
Truthy(reply) == ~reply.null
OrEmpty(reply) == IF reply.null THEN <<>> ELSE reply.docs
First(docs) == IF docs = <<>> THEN JsUndefined ELSE docs[1]

\* an identifier in the string form the callers see
StringId(x) == [id |-> x, form |-> "string"]

\* read(db, 'note', query, ...): the stored Notes the query matches, in the
\* store's order, each with its _id
ReadNotes(coll, _id, userId) ==
  LET hit(n) == coll[n] # Absent /\ NotesQuery(coll[n], _id, userId)
      ids == SelectSeq(NoteOrder, hit)
  IN  [i \in 1..Len(ids) |->
         [_id |-> ids[i], userId |-> coll[ids[i]].userId,
          plantIds |-> coll[ids[i]].plantIds]]

\* remove(db, 'note', {_id: {$in: ids}}): the collection without the documents
\* whose identifier is in ids
RemoveNotes(coll, ids) ==
  [n \in NoteIds |-> IF n \in ids THEN Absent ELSE coll[n]]

\* update(db, 'note', docs): every document of the batch replaces the stored
\* document with its identifier; a document that is not stored is left out
UpdateNotes(coll, docs) ==
  [n \in NoteIds |->
     IF coll[n] # Absent /\ \E i \in DOMAIN docs : docs[i]._id = n
     THEN LET i == CHOOSE j \in DOMAIN docs :
                     /\ docs[j]._id = n
                     /\ \A k \in DOMAIN docs : docs[k]._id = n => k <= j
          IN  [userId |-> docs[i].userId, plantIds |-> docs[i].plantIds]
     ELSE coll[n]]

\* remove(db, 'plant', query): the collection without the Plants the query
\* matches
RemovePlant(coll, _id, userId) ==
  [p \in PlantIds |->
     IF coll[p] # Absent /\ PlantQuery(p, coll[p], _id, userId)
     THEN Absent ELSE coll[p]]

\* the count a remove reports
Removed(before, after) ==
  Cardinality({x \in DOMAIN before : before[x] # Absent /\ after[x] = Absent})

\* -------------------------------------------------- deletePlant, the code

\* the reduce of getNotes: one plantIds entry -> singlePlantNotes (the _id),
\* anything else -> multiplePlantNotes (the Note)
RECURSIVE SplitReduce(_, _)
SplitReduce(notesForPlant, acc) ==
  IF notesForPlant = <<>> THEN acc
  ELSE LET n == Head(notesForPlant)
       IN  SplitReduce(Tail(notesForPlant),
             IF Len(n.plantIds) = 1
             THEN [acc EXCEPT !.singlePlantNotes = Append(@, n._id)]
             ELSE [acc EXCEPT !.multiplePlantNotes = Append(@, n)])

EmptySplit == [singlePlantNotes |-> <<>>, multiplePlantNotes |-> <<>>]

SplitNotes(notesForPlant) == SplitReduce(notesForPlant, EmptySplit)

\* the map of updateNotes: every Note without the entries equal to _id
UpdatedNotesUnfiltered(multiplePlantNotes, _id) == multiplePlantNotes

UpdatedNotes(multiplePlantNotes, _id) ==
  [i \in 1..Len(multiplePlantNotes) |->
     [multiplePlantNotes[i] EXCEPT
        !.plantIds = SelectSeq(@, LAMBDA ids : ids # _id)]]

\* the stage that issues the next storage call once deleteNotes is through
AfterDeleteNotes(multiplePlantNotes) ==
  IF Len(multiplePlantNotes) > 0 THEN "updateNotes" ELSE "deletePlant"

\* the stage that issues the next storage call once getNotes is through
AfterGetNotes(split) ==
  IF Len(split.singlePlantNotes) > 0 THEN "deleteNotes"
  ELSE AfterDeleteNotes(split.multiplePlantNotes)

\* async.waterfall: a task that calls back with an error ends the waterfall
WaterfallContinue(err, nextStage) == nextStage

Waterfall(err, nextStage) == IF err # Null THEN "done" ELSE nextStage

\* what a storage call of this run may report
Outcomes(error) == IF storeFails THEN {Null, error} ELSE {Null}

\* the bookkeeping of one completed stage of process p: the error (if any) goes
\* to the final callback, otherwise stage next issues its storage call
Proceed(p, err, next, result) ==
  LET to == Waterfall(err, next)
  IN  /\ pc' = [pc EXCEPT ![p] = to]
      /\ calls' = [calls EXCEPT ![p] = IF to = "done" THEN @ ELSE @ + 1]
      /\ cbErr' = [cbErr EXCEPT ![p] = IF to = "done" THEN err ELSE @]
      /\ cbResult' = [cbResult EXCEPT ![p] = IF to = "done" THEN result ELSE @]
      /\ firstErr' = [firstErr EXCEPT ![p] = IF @ = Null THEN err ELSE @]
      /\ callsAtErr' = [callsAtErr EXCEPT
                          ![p] = IF firstErr[p] = Null /\ err # Null
                                 THEN calls[p] ELSE @]

\* deletePlant(_id, userId, cb) with the connection in place: GetDb calls
\* back at once and the waterfall's first task issues the read of the Notes
DeletePlantCall(p, _id, userId) ==
  /\ pc[p] = "idle"
  /\ ReuseDb(db)
  /\ pc' = [pc EXCEPT ![p] = "getNotes"]
  /\ arg' = [arg EXCEPT ![p] = [_id |-> _id, userId |-> userId]]
  /\ calls' = [calls EXCEPT ![p] = @ + 1]
  /\ UNCHANGED <<note, plant, splitNotes, cbErr, cbResult, firstErr,
                 callsAtErr, restVars>>

\* the read of getNotes replies
GetNotesDone(p) ==
  /\ pc[p] = "getNotes"
  /\ \E getNotesError \in Outcomes("getNotesError") :
       LET notesForPlant ==
             IF getNotesError # Null THEN [null |-> TRUE, docs |-> <<>>]
             ELSE Reply(ReadNotes(note, arg[p]._id, arg[p].userId))
           split == SplitNotes(OrEmpty(notesForPlant))
       IN  /\ splitNotes' = [splitNotes EXCEPT ![p] = split]
           /\ Proceed(p, getNotesError, AfterGetNotes(split), Undefined)
  /\ UNCHANGED <<note, plant, arg, restVars>>

\* the remove of deleteNotes replies; a failed remove may have removed some.
\* done(removeNoteErr, multiplePlantNotes): with an error the waterfall hands
\* both to the final callback
DeleteNotesDone(p) ==
  /\ pc[p] = "deleteNotes"
  /\ \E removeNoteErr \in Outcomes("removeNoteErr") :
       /\ \E gone \in IF removeNoteErr = Null
                      THEN {Range(splitNotes[p].singlePlantNotes)}
                      ELSE SUBSET Range(splitNotes[p].singlePlantNotes) :
            note' = RemoveNotes(note, gone)
       /\ Proceed(p, removeNoteErr,
                  AfterDeleteNotes(splitNotes[p].multiplePlantNotes),
                  Value(splitNotes[p].multiplePlantNotes))
  /\ UNCHANGED <<plant, arg, splitNotes, restVars>>

\* the update of updateNotes replies; a failed batch may have written some
UpdateNotesDone(p) ==
  /\ pc[p] = "updateNotes"
  /\ \E updateNotesError \in Outcomes("updateNotesError") :
       LET updatedNotes ==
             UpdatedNotes(splitNotes[p].multiplePlantNotes, arg[p]._id)
       IN  /\ \E written \in IF updateNotesError = Null
                             THEN {DOMAIN updatedNotes}
                             ELSE SUBSET DOMAIN updatedNotes :
                note' = UpdateNotes(note,
                          SelectSeq(updatedNotes,
                            LAMBDA d : \E i \in written : updatedNotes[i] = d))
           /\ Proceed(p, updateNotesError, "deletePlant", Undefined)
  /\ UNCHANGED <<plant, arg, splitNotes, restVars>>

\* the remove of the Plant replies and the caller's callback runs
DeletePlantDone(p) ==
  /\ pc[p] = "deletePlant"
  /\ \E removePlantErr \in Outcomes("removePlantErr") :
       /\ \E applied \in IF removePlantErr = Null THEN {TRUE} ELSE BOOLEAN :
            /\ plant' = IF applied
                        THEN RemovePlant(plant, arg[p]._id, arg[p].userId)
                        ELSE plant
            /\ Proceed(p, removePlantErr, "done",
                       IF removePlantErr = Null
                       THEN Value(Removed(plant, plant')) ELSE Undefined)
  /\ UNCHANGED <<note, arg, splitNotes, restVars>>

\* ------------------------------------------- one deletePlant, running alone

NoArg == [_id |-> Null, userId |-> Null]

DpIdle(active) ==
  /\ pc = [p \in Procs |-> IF p \in active THEN "idle" ELSE "off"]
  /\ arg = [p \in Procs |-> NoArg]
  /\ splitNotes = [p \in Procs |-> EmptySplit]
  /\ cbErr = [p \in Procs |-> Null]
  /\ cbResult = [p \in Procs |-> Undefined]
  /\ calls = [p \in Procs |-> 0]
  /\ firstErr = [p \in Procs |-> Null]
  /\ callsAtErr = [p \in Procs |-> 0]

\* nothing was written by a concurrent createNote / updateNote
NoWrite == [n |-> Null, plantIds |-> <<>>, err |-> Null, applied |-> FALSE,
            stage |-> [p \in Procs |-> "off"]]

WriterIdle(on) ==
  /\ wpc = IF on THEN "idle" ELSE "off"
  /\ wr = NoWrite

\* no findOrCreateFacebookUser and no getPlantById in this run
UserOff ==
  /\ user = [x \in UserIds |-> Absent]
  /\ user0 = user
  /\ fpc = "off"
  /\ farg = Null
  /\ fres = <<>>

GetOff ==
  /\ gpc = "off"
  /\ garg = Null
  /\ gplant = <<>>
  /\ gres = <<>>
  /\ gnoteReads = 0

InitDelete ==
  /\ readNoMatch \in {"empty", "none"}
  /\ UserOff /\ GetOff
  /\ note \in [NoteIds -> NoteDocs \cup {Absent}]
  /\ plant \in [PlantIds -> PlantDocs \cup {Absent}]
  /\ note0 = note
  /\ plant0 = plant
  /\ storeFails \in BOOLEAN
  /\ DpIdle({"d1"})
  /\ WriterIdle(FALSE)
  /\ Connected

NextDelete ==
  \/ \E _id \in PlantIds, userId \in Users : DeletePlantCall("d1", _id, userId)
  \/ GetNotesDone("d1")
  \/ DeleteNotesDone("d1")
  \/ UpdateNotesDone("d1")
  \/ DeletePlantDone("d1")

SpecDelete == InitDelete /\ [][NextDelete]_vars

\* ------------------------------------------------ deletePlant running alone

\* the arguments, outcome and starting store of the one invocation
P1 == arg["d1"]._id
U1 == arg["d1"].userId
Called1 == pc["d1"] # "idle"
Done1 == pc["d1"] = "done"
Ok1 == Done1 /\ cbErr["d1"] = Null
Owned1 == plant0[P1] # Absent /\ plant0[P1].userId = U1

\* Note n referenced Plant p when the run began
Refs0(n, p) == note0[n] # Absent /\ p \in Range(note0[n].plantIds)
\* ... and was the caller's
Fetched0(n) == Refs0(n, P1) /\ note0[n].userId = U1

C2_NoEmptyPlantIds ==
  Ok1 => \A n \in NoteIds :
           (Fetched0(n) /\ note[n] # Absent) => note[n].plantIds # <<>>

\* C3: once a stage of deletePlant has reported an error, no further storage call
\* is issued, the caller's callback has received exactly that error, and what the
\* completed stages wrote is still in place.
C3_FirstErrorAborts ==
  LET e == firstErr["d1"]
      singles == Range(splitNotes["d1"].singlePlantNotes)
      multi == splitNotes["d1"].multiplePlantNotes
      getNotesThrough == e \in {"removeNoteErr", "updateNotesError", "removePlantErr"}
      deleteNotesThrough == e \in {"updateNotesError", "removePlantErr"}
      updateNotesThrough == e = "removePlantErr"
      plantStageReached == e = "removePlantErr"
  IN  e # Null =>
        /\ Done1
        /\ cbErr["d1"] = e
        /\ calls["d1"] = callsAtErr["d1"]
        /\ e = "getNotesError" => note = note0
        /\ ~plantStageReached => plant = plant0
        /\ deleteNotesThrough => \A n \in singles : note[n] = Absent
        /\ ~deleteNotesThrough =>
             \A i \in DOMAIN multi : note[multi[i]._id] = note0[multi[i]._id]
        /\ updateNotesThrough =>
             \A i \in DOMAIN multi :
               /\ note[multi[i]._id] # Absent
               /\ P1 \notin Range(note[multi[i]._id].plantIds)

\* the update stage failed after a single-plant Note had been deleted
C3_Witness ==
  /\ firstErr["d1"] = "updateNotesError"
  /\ cbErr["d1"] = "updateNotesError"
  /\ calls["d1"] = 3
  /\ \E n \in NoteIds : note0[n] # Absent /\ note[n] = Absent
  /\ plant[P1] # Absent

\* C4: whatever deletePlant(P, u) does, a Plant of another user is still stored,
\* the only Notes deleted or modified are Notes of u whose plantIds contained P,
\* and no other Plant changes.
C4_OwnershipFrame ==
  Called1 =>
    /\ \A n \in NoteIds : ~Fetched0(n) => note[n] = note0[n]
    /\ \A n \in NoteIds :
         (Fetched0(n) /\ note[n] # Absent) => note[n].userId = note0[n].userId
    /\ \A p \in PlantIds : p # P1 => plant[p] = plant0[p]
    /\ ~Owned1 => plant[P1] = plant0[P1]

\* called by a user who does not own P: P is kept and a Note of that user is
\* deleted while another user's Note of P is untouched
C4_Witness ==
  /\ Ok1
  /\ plant0[P1] # Absent /\ plant0[P1].userId # U1 /\ plant[P1] # Absent
  /\ \E n, m \in NoteIds :
       /\ Fetched0(n) /\ note[n] = Absent
       /\ Refs0(m, P1) /\ note0[m].userId # U1 /\ note[m] = note0[m]

\* --------------------------------- deletePlant among concurrent workflows

\* createNote(note, cb) with the connection in place: a note without userId is
\* refused before any write; otherwise createOne inserts it, which the store
\* refuses when the identifier is taken.  The call and its reply are one step:
\* nothing of the call is visible before it takes effect.
CreateNote(n, userId, plantIds) ==
  /\ wpc = "idle"
  /\ ReuseDb(db)
  /\ wpc' = "done"
  /\ LET err == IF userId = Null THEN "userId must be specified"
                ELSE IF note[n] # Absent THEN "WriteError" ELSE Null
     IN  /\ note' = IF err = Null
                    THEN [note EXCEPT ![n] = [userId |-> userId, plantIds |-> plantIds]]
                    ELSE note
         /\ wr' = [n |-> n, plantIds |-> plantIds, err |-> err,
                   applied |-> err = Null, stage |-> pc]
  /\ UNCHANGED <<plant, envVars, connVars, userVars, getVars, dpVars>>

\* updateNote(note, cb) with the connection in place: update replaces the
\* stored Note that has the identifier
UpdateNote(n, userId, plantIds) ==
  /\ wpc = "idle"
  /\ ReuseDb(db)
  /\ wpc' = "done"
  /\ note' = UpdateNotes(note, <<[_id |-> n, userId |-> userId, plantIds |-> plantIds]>>)
  /\ wr' = [n |-> n, plantIds |-> plantIds, err |-> Null,
            applied |-> note[n] # Absent, stage |-> pc]
  /\ UNCHANGED <<plant, envVars, connVars, userVars, getVars, dpVars>>

\* the plantIds of the Notes of the racing runs
RacePlantIds == {<<"p1">>, <<"p2">>, <<"p1", "p2">>}

InitRace ==
  /\ readNoMatch = "empty"
  /\ UserOff /\ GetOff
  /\ note \in [NoteIds -> [userId : {"u1"}, plantIds : RacePlantIds] \cup {Absent}]
  /\ plant = [p \in PlantIds |-> [userId |-> "u1"]]
  /\ note0 = note
  /\ plant0 = plant
  /\ storeFails = FALSE
  /\ DpIdle(Procs)
  /\ WriterIdle(TRUE)
  /\ Connected

NextRace ==
  \/ \E p \in Procs, _id \in PlantIds, userId \in Users :
       DeletePlantCall(p, _id, userId)
  \/ \E p \in Procs : GetNotesDone(p)
  \/ \E p \in Procs : DeleteNotesDone(p)
  \/ \E p \in Procs : UpdateNotesDone(p)
  \/ \E p \in Procs : DeletePlantDone(p)
  \/ \E n \in NoteIds, userId \in {"u1", Null}, plantIds \in RacePlantIds :
       CreateNote(n, userId, plantIds)
  \/ \E n \in NoteIds, userId \in {"u1"}, plantIds \in RacePlantIds :
       UpdateNote(n, userId, plantIds)

SpecRace == InitRace /\ [][NextRace]_vars

\* the identifiers of the Notes the read of process p returned
FetchedIds(p) ==
  Range(splitNotes[p].singlePlantNotes)
    \cup {splitNotes[p].multiplePlantNotes[i]._id :
            i \in DOMAIN splitNotes[p].multiplePlantNotes}

\* the write took effect after process p had fetched its Notes and before its
\* remove of the Plant took effect, and gave a Note p's Plant that no
\* deletePlant has fetched
RacedWith(p) ==
  /\ wpc = "done" /\ wr.applied
  /\ wr.stage[p] \in {"deleteNotes", "updateNotes", "deletePlant"}
  /\ arg[p]._id \in Range(wr.plantIds)
  /\ \A q \in Procs : wr.n \notin FetchedIds(q)

\* C10: deletePlant is not isolated.  When a createNote or updateNote gives a Note
\* the Plant P after deletePlant(P, u) of P's owner has fetched its Notes and
\* before its remove of P has taken effect, deletePlant completes without error
\* and leaves that Note stored with P in its plantIds while P is gone; and every
\* deletePlant of two simultaneous ones completes without error.
C10_NotIsolated ==
  \A p \in Procs :
    pc[p] = "done" =>
      /\ cbErr[p] = Null
      /\ cbResult[p] # Undefined
      /\ wpc = "done" /\ wr.applied => wr.err = Null
      /\ (RacedWith(p) /\ plant0[arg[p]._id].userId = arg[p].userId) =>
           /\ note[wr.n] # Absent
           /\ arg[p]._id \in Range(note[wr.n].plantIds)
           /\ plant[arg[p]._id] = Absent

\* two deletePlant of the same Plant by its owner ran at the same time (both
\* fetched the same Note) and a createNote raced with them
C10_Witness ==
  /\ pc["d1"] = "done" /\ pc["d2"] = "done"
  /\ arg["d1"] = arg["d2"]
  /\ FetchedIds("d1") \cap FetchedIds("d2") # {}
  /\ RacedWith("d1")
  /\ note0[wr.n] = Absent
  /\ plant0[arg["d1"]._id].userId = arg["d1"].userId
  /\ plant[arg["d1"]._id] = Absent
  /\ arg["d1"]._id \in Range(note[wr.n].plantIds)

\* ------------------------------------------ the connection under the calls

SpecConnInit ==
  /\ InitConn
  /\ readNoMatch = "empty"
  /\ UserOff /\ GetOff
  /\ note = [n \in NoteIds |-> Absent]
  /\ plant = [p \in PlantIds |-> Absent]
  /\ note0 = note
  /\ plant0 = plant
  /\ storeFails = FALSE
  /\ DpIdle({})
  /\ WriterIdle(FALSE)

NextConn ==
  \/ \E c \in Callers, kind \in OpKinds, valid \in BOOLEAN :
       FacadeCall(c, kind, valid)
  \/ \E c \in Callers, ok \in BOOLEAN : ConnectDone(c, ok)

SpecConn == SpecConnInit /\ [][NextConn]_vars

\* C5: as long as every connect succeeds, MongoClient.connect is called at most
\* once and every GetDb callback receives the same connection.
C5_ConnectOnce ==
  (\A c \in Callers : cerr[c] = Null) =>
    /\ connects <= 1
    /\ \A c, d \in Callers :
         (cdb[c] # Undefined /\ cdb[d] # Undefined) => cdb[c] = cdb[d]

\* C6: an operation whose GetDb reported a connect error hands that error to
\* its callback, issues no storage call and does not connect again.
C6_ConnectErrorIsFatal ==
  \A c \in Callers \ {"constructor"} :
    cerr[c] # Null =>
      /\ ccb[c] = Value(cerr[c])
      /\ cissued[c] = Undefined
      /\ Len(cconn[c]) <= 1

\* ------------------------------------------------ findOrCreateFacebookUser

\* two successive calls are followed
MaxUserCalls == 2

\* read(db, 'user', {'facebook.id': fb}, ...): the stored Users with that
\* facebook.id, each with its _id as a string
UserOrder == <<"x1", "x2", "x3">>

ReadUsers(coll, fb) ==
  LET hit(x) == coll[x] # Absent /\ coll[x].fb = fb
      ids == SelectSeq(UserOrder, hit)
  IN  [i \in 1..Len(ids) |-> [_id |-> StringId(ids[i]), fb |-> coll[ids[i]].fb]]

\* convertIdToString(obj): obj with its _id as a string, when it has one
ConvertIdToString(obj) ==
  IF obj # JsUndefined THEN [obj EXCEPT !._id = StringId(@.id)] ELSE obj

\* what a finished call handed to its callback (and, for the record, the
\* facebook.id it was called with and whether it inserted a User)
Handed(fb, err, u, created) ==
  [fb |-> fb, err |-> err, user |-> u, created |-> created]

\* findOrCreateFacebookUser(userDetails, cb) with the connection in place:
\* without a facebook.id the callback gets an Error, otherwise the read of
\* the user collection is issued
FindUserCall(fb) ==
  /\ fpc = "idle"
  /\ ReuseDb(db)
  /\ Len(fres) < MaxUserCalls
  /\ IF fb = Null
     THEN /\ fres' = Append(fres, Handed(fb, "No facebook.id", JsUndefined, FALSE))
          /\ UNCHANGED <<fpc, farg>>
     ELSE /\ fpc' = "read"
          /\ farg' = fb
          /\ fres' = fres
  /\ UNCHANGED <<note, plant, user, user0, envVars, raceVars, connVars, getVars,
                 dpVars>>

\* the read replies: an error goes to the callback; a result that is true
\* hands back user[0]; otherwise createOne is issued
FindUserReadDone ==
  /\ fpc = "read"
  /\ \E readError \in Outcomes("readError") :
       LET reply == IF readError # Null THEN [null |-> TRUE, docs |-> <<>>]
                    ELSE Reply(ReadUsers(user, farg))
       IN  IF readError # Null
           THEN /\ fres' = Append(fres, Handed(farg, readError, JsUndefined, FALSE))
                /\ fpc' = "idle"
           ELSE IF Truthy(reply)
           THEN /\ fres' = Append(fres, Handed(farg, Null,
                                     ConvertIdToString(First(reply.docs)), FALSE))
                /\ fpc' = "idle"
           ELSE /\ fres' = fres
                /\ fpc' = "create"
  /\ UNCHANGED <<note, plant, user, user0, farg, envVars, raceVars, connVars,
                 getVars, dpVars>>

\* createOne replies: the User made from the profile is stored under a new
\* identifier and handed back with its _id as a string
FindUserCreateDone ==
  /\ fpc = "create"
  /\ \E createOneError \in Outcomes("createOneError") :
       IF createOneError # Null
       THEN /\ fres' = Append(fres, Handed(farg, createOneError, JsUndefined, FALSE))
            /\ user' = user
       ELSE \E x \in UserIds :
              /\ user[x] = Absent
              /\ user' = [user EXCEPT ![x] = [fb |-> farg]]
              /\ fres' = Append(fres, Handed(farg, Null,
                             ConvertIdToString([_id |-> StringId(x), fb |-> farg]),
                             TRUE))
  /\ fpc' = "idle"
  /\ UNCHANGED <<note, plant, user0, farg, envVars, raceVars, connVars, getVars,
                 dpVars>>

InitUser ==
  /\ readNoMatch \in {"empty", "none"}
  /\ storeFails \in BOOLEAN
  /\ user \in [UserIds -> UserDocs \cup {Absent}]
  /\ \E x \in UserIds : user[x] = Absent
  /\ user0 = user
  /\ fpc = "idle"
  /\ farg = Null
  /\ fres = <<>>
  /\ GetOff
  /\ note = [n \in NoteIds |-> Absent]
  /\ plant = [p \in PlantIds |-> Absent]
  /\ note0 = note
  /\ plant0 = plant
  /\ DpIdle({})
  /\ WriterIdle(FALSE)
  /\ Connected

NextUser ==
  \/ \E fb \in FbIds \cup {Null} : FindUserCall(fb)
  \/ FindUserReadDone
  \/ FindUserCreateDone

SpecUser == InitUser /\ [][NextUser]_vars

\* the stored Users with facebook.id fb
WithFb(coll, fb) == {x \in UserIds : coll[x] # Absent /\ coll[x].fb = fb}

\* C7: two successive calls with the same facebook.id that report no error hand
\* back the same stored User, its _id a string; the second call inserts nothing;
\* and a collection that held at most one User with that facebook.id holds
\* exactly one afterwards.
C7_FindOrCreateIdempotent ==
  (/\ Len(fres) = 2
   /\ fres[1].fb = fres[2].fb /\ fres[1].fb # Null
   /\ fres[1].err = Null /\ fres[2].err = Null
   /\ Cardinality(WithFb(user0, fres[1].fb)) <= 1)
  =>
   /\ fres[1].user # JsUndefined
   /\ fres[2].user = fres[1].user
   /\ fres[1].user._id.form = "string"
   /\ fres[1].user._id.id \in WithFb(user, fres[1].fb)
   /\ ~fres[2].created
   /\ Cardinality(WithFb(user, fres[1].fb)) = 1

\* ------------------------------------------------------------ getPlantById

\* read(db, 'plant', {_id: plantId}, ...): the stored Plant with that
\* identifier, its _id as a string
ReadPlants(coll, plantId) ==
  IF coll[plantId] # Absent
  THEN <<[_id |-> StringId(plantId), userId |-> coll[plantId].userId]>>
  ELSE <<>>

\* read(db, 'note', {plantIds: plantId}, ...): the stored Notes whose plantIds
\* array contains plantId, each with its _id as a string
ReadNotesOfPlant(coll, plantId) ==
  LET hit(n) == coll[n] # Absent /\ plantId \in Range(coll[n].plantIds)
      ids == SelectSeq(NoteOrder, hit)
  IN  [i \in 1..Len(ids) |->
         [_id |-> StringId(ids[i]), userId |-> coll[ids[i]].userId,
          plantIds |-> coll[ids[i]].plantIds]]

\* the callback of the map over the Notes read: it sets note._id and
\* note.plantIds on the Note it is given and returns nothing
MapNote(n) == JsUndefined

\* plant.notes = (notes || []).map(...)
PlantNotes(notes) ==
  [i \in 1..Len(OrEmpty(notes)) |-> MapNote(OrEmpty(notes)[i])]

\* getPlantById(plantId, cb) with the connection in place: the read of the
\* plant collection is issued
GetPlantCall(plantId) ==
  /\ gpc = "idle"
  /\ ReuseDb(db)
  /\ gpc' = "readPlant"
  /\ garg' = plantId
  /\ UNCHANGED <<note, plant, gplant, gres, gnoteReads, envVars, raceVars,
                 connVars, userVars, dpVars>>

\* the read of the Plant replies: an error goes to the callback; a result that
\* is true has its first element's _id read for the query of the Notes, which
\* raises a TypeError when there is no first element; otherwise cb()
GetPlantReadDone ==
  /\ gpc = "readPlant"
  /\ \E readError \in Outcomes("readError") :
       LET reply == IF readError # Null THEN [null |-> TRUE, docs |-> <<>>]
                    ELSE Reply(ReadPlants(plant, garg))
       IN  IF readError # Null
           THEN /\ gpc' = "done"
                /\ gres' = <<[err |-> readError, plant |-> JsUndefined]>>
                /\ UNCHANGED <<gplant, gnoteReads>>
           ELSE IF Truthy(reply)
           THEN IF First(reply.docs) = JsUndefined
                THEN /\ gpc' = "raised"
                     /\ gplant' = reply.docs
                     /\ UNCHANGED <<gres, gnoteReads>>
                ELSE /\ gpc' = "readNotes"
                     /\ gplant' = reply.docs
                     /\ gnoteReads' = gnoteReads + 1
                     /\ gres' = gres
           ELSE /\ gpc' = "done"
                /\ gres' = <<[err |-> Null, plant |-> JsUndefined]>>
                /\ UNCHANGED <<gplant, gnoteReads>>
  /\ UNCHANGED <<note, plant, garg, envVars, raceVars, connVars, userVars,
                 dpVars>>

\* the read of the Notes replies: an error goes to the callback; otherwise
\* the Plant, its _id a string and its notes set, is handed back
GetPlantNotesDone ==
  /\ gpc = "readNotes"
  /\ \E noteReadError \in Outcomes("noteReadError") :
       LET notes == IF noteReadError # Null THEN [null |-> TRUE, docs |-> <<>>]
                    ELSE Reply(ReadNotesOfPlant(note, gplant[1]._id.id))
           found == ConvertIdToString(gplant[1])
       IN  gres' = IF noteReadError # Null
                   THEN <<[err |-> noteReadError, plant |-> JsUndefined]>>
                   ELSE <<[err |-> Null,
                           plant |-> [_id |-> found._id, userId |-> found.userId,
                                      notes |-> PlantNotes(notes)]]>>
  /\ gpc' = "done"
  /\ UNCHANGED <<note, plant, garg, gplant, gnoteReads, envVars, raceVars,
                 connVars, userVars, dpVars>>

InitGet ==
  /\ readNoMatch \in {"empty", "none"}
  /\ storeFails \in BOOLEAN
  /\ note \in [NoteIds -> NoteDocs \cup {Absent}]
  /\ plant \in [PlantIds -> PlantDocs \cup {Absent}]
  /\ note0 = note
  /\ plant0 = plant
  /\ gpc = "idle"
  /\ garg = Null
  /\ gplant = <<>>
  /\ gres = <<>>
  /\ gnoteReads = 0
  /\ UserOff
  /\ DpIdle({})
  /\ WriterIdle(FALSE)
  /\ Connected

NextGet ==
  \/ \E plantId \in PlantIds : GetPlantCall(plantId)
  \/ GetPlantReadDone
  \/ GetPlantNotesDone

SpecGet == InitGet /\ [][NextGet]_vars

\* the stored Notes that reference plantId as the callers are to see them: _id
\* and plantIds as strings
NotesOf(plantId) ==
  LET found == ReadNotesOfPlant(note0, plantId)
  IN  [i \in 1..Len(found) |->
         [_id |-> found[i]._id,
          userId |-> found[i].userId,
          plantIds |-> [j \in 1..Len(found[i].plantIds) |->
                          StringId(found[i].plantIds[j])]]]

\* C8: the Plant getPlantById hands back has in notes exactly the stored Notes
\* whose plantIds contain its identifier, one entry per Note, _id and plantIds
\* as strings; nothing stored is modified.
C8_PlantWithNotes ==
  (gpc = "done" /\ gres[1].plant # JsUndefined) =>
    /\ gres[1].plant.notes = NotesOf(garg)
    /\ note = note0
    /\ plant = plant0

\* C9: when no stored Plant has the identifier and the read reports no error,
\* getPlantById calls back with neither an error nor a Plant, raises nothing and
\* reads no Notes.
C9_AbsentPlant ==
  (/\ gpc \in {"readNotes", "done", "raised"}
   /\ plant0[garg] = Absent
   /\ gres # <<>> => gres[1].err = Null)
  =>
   /\ gpc = "done"
   /\ gres = <<[err |-> Null, plant |-> JsUndefined]>>
   /\ gnoteReads = 0

====
